---- MODULE Spec2Model ----
(***************************************************************************)
(* Port utilities of src/node/network/index.ts: validatePort, isPortInUse, *)
(* isPortAvailable, findAvailablePort, checkMultiplePorts and waitForPort, *)
(* as a state machine of one call at a time.  Every await of the source is *)
(* a position (pc) of the call; the TCP probe (is-port-reachable) and the  *)
(* timer are the environment and settle nondeterministically.              *)
(* The string, time and JWT utilities (randomStringWithFixedLength,        *)
(* convertToSeconds, jwtVerify, jwtSign, jwtDecode, jwtIsExpired,          *)
(* jwtTimeUntilExpiry) follow, each under a specification of its own.      *)
(***************************************************************************)
EXTENDS Integers, Sequences, FiniteSets, TLC

VARIABLES
    isNode,         \* the runtime is Node.js (what assertNodeEnvironment tests)
    op,             \* the public operation in progress, "idle" before the call
    pc,             \* position of the call: "idle", "loop", "probing", "sleeping", "all", "done"
    result,         \* how the call's promise settled (Pending until then)
    startPort,      \* findAvailablePort: options resolved with their defaults
    endPort,
    maxTries,
    host,           \* the host option as resolved by the operation in progress
    timeout,        \* the per-probe timeout option as resolved
    currentPort,    \* findAvailablePort: let currentPort
    attempts,       \* findAvailablePort: let attempts
    port,           \* isPortInUse, isPortAvailable, waitForPort: the port argument
    targetState,    \* waitForPort: 'available' | 'in-use'
    pollInterval,   \* waitForPort: options resolved with their defaults
    overallTimeout,
    startTime,      \* waitForPort: const startTime = Date.now()
    now,            \* the wall clock, Date.now()
    ports,          \* checkMultiplePorts: the ports argument
    checks,         \* checkMultiplePorts: the promises of ports.map(...)
    probed,         \* history: the ports handed to isPortReachable, in call order
    inflight,       \* the number of isPortReachable calls not yet settled
    lastOutcome,    \* history: how the most recent isPortReachable call settled
    foundFree,      \* history: findAvailablePort: the ports a probe reported available
    targetSeen,     \* history: waitForPort: some in-loop probe observed targetState
    errorCaught,    \* history: the operation caught (and logged) a probe's rejection
    onTime,         \* history: every probe took at most timeout, every sleep pollInterval
    options,        \* history: the options as the caller passed them, omitted ones undefined
    args,           \* string, time and jwt utilities: the arguments of the call in progress
    locals          \* string, time and jwt utilities: the locals of the call in progress

vars == <<isNode, op, pc, result, startPort, endPort, maxTries, host, timeout,
          currentPort, attempts, port, targetState, pollInterval, overallTimeout,
          startTime, now, ports, checks, probed, inflight, lastOutcome,
          foundFree, targetSeen, errorCaught, onTime, options, args, locals>>

\* the arguments and locals of the string, time and jwt utilities
libVars == <<args, locals>>

\* the state of the port operations but op, pc, result and the clock
netVars == <<startPort, endPort, maxTries, host, timeout, currentPort, attempts,
             port, targetState, pollInterval, overallTimeout, startTime,
             ports, checks, probed, inflight, lastOutcome, foundFree, targetSeen,
             errorCaught, onTime, options>>

findVars == <<startPort, endPort, maxTries, currentPort, attempts>>
waitVars == <<targetState, pollInterval, overallTimeout, startTime>>
batchVars == <<ports, checks>>

----------------------------------------------------------------------------
(* JavaScript values: a number is an integer or not; an option may be omitted. *)

Int_(n) == [t |-> "int", v |-> n]
\* the non-integer number n + 1/2
Frac(n) == [t |-> "frac", v |-> n]
Undefined == [t |-> "undef", v |-> 0]

\* Number.isInteger
IsInteger(x) == x.t = "int"

\* destructuring default: `{ name = d } = options`
Default(x, d) == IF x = Undefined THEN d ELSE x

NoHost == "<undefined>"

\* an options object; an option that is omitted is undefined (NoHost for host)
Options(s, e, m, h, tm, pi, ot) ==
    [startPort |-> s, endPort |-> e, maxTries |-> m, host |-> h, timeout |-> tm,
     pollInterval |-> pi, overallTimeout |-> ot]

\* no call of a string, time or jwt utility made yet
NoArgs == [none |-> TRUE]
NoLocals == [none |-> TRUE]

\* options = {}: the default of the options parameter
NoOptions == Options(Undefined, Undefined, Undefined, NoHost, Undefined, Undefined, Undefined)

----------------------------------------------------------------------------
(* Bounds of the model *)

\* largest maxTries option drawn (besides the default)
MaxTriesBound == 3
\* largest overallTimeout, pollInterval, per-probe timeout drawn, in ms
MaxOverallTimeout == 3
MaxPollInterval == 2
MaxProbeTimeout == 1
\* how much longer than asked a probe or a sleep may take, in ms
MaxLate == 1
\* longest ports list given to checkMultiplePorts
MaxPorts == 3
\* largest length given to randomStringWithFixedLength
MaxLength == 3
\* largest count of a time unit given to convertToSeconds (besides the documented example)
MaxUnit == 1
\* largest exp claim of a token payload, in seconds
MaxExp == 3

(* Program constants *)
MinPort == 1
MaxPort == 65535
DefaultStartPort == 3000
DefaultEndPort == 65535
DefaultMaxTries == 100
DefaultTimeout == 5000
DefaultPollInterval == 1000
DefaultOverallTimeout == 30000
DefaultHost == "localhost"

----------------------------------------------------------------------------
(* Results and errors *)

NoInfo == [from |-> 0, to |-> 0, attempts |-> 0, target |-> "", ms |-> 0]

Pending == [kind |-> "pending", name |-> "", msg |-> "", port |-> Undefined,
            host |-> NoHost, info |-> NoInfo, value |-> Undefined]

Return(v) == [Pending EXCEPT !.kind = "return", !.value = v]

\* class PortError: (message, port?, host?)
PortError(msg, p, h, info) ==
    [Pending EXCEPT !.kind = "throw", !.name = "PortError", !.msg = msg,
                    !.port = p, !.host = h, !.info = info]

\* the error assertNodeEnvironment throws
EnvironmentError ==
    [Pending EXCEPT !.kind = "throw", !.name = "EnvironmentError",
                    !.msg = "environment"]

Ok == Return(Undefined)

IsThrow(r) == r.kind = "throw"

----------------------------------------------------------------------------
(* The helpers every operation goes through *)

\* validatePort without its upper bound
validatePortNoUpperBound(p) ==
    IF ~IsInteger(p) \/ p.v < MinPort
    THEN PortError("invalid_port", p, NoHost, NoInfo)
    ELSE Ok

\* validatePort with `port < 0` for `port < 1`
validatePortAcceptsZero(p) ==
    IF ~IsInteger(p) \/ p.v < 0 \/ p.v > MaxPort
    THEN PortError("invalid_port", p, NoHost, NoInfo)
    ELSE Ok

\* validatePort: throws unless port is an integer in 1..65535
validatePort(p) ==
    IF ~IsInteger(p) \/ p.v < MinPort \/ p.v > MaxPort
    THEN PortError("invalid_port", p, NoHost, NoInfo)
    ELSE Ok

\* assertNodeEnvironment (src/universal/utils): throws outside Node.js
assertNodeEnvironment(node) == IF node THEN Ok ELSE EnvironmentError

\* isPortInUse up to its call of isPortReachable: Ok when the probe is started
isPortInUseEntry(node, p) ==
    LET env == assertNodeEnvironment(node)
    IN  IF IsThrow(env) THEN env ELSE validatePort(p)

\* how one isPortReachable call settles: it resolves true or false, or rejects
Outcomes == {"reachable", "unreachable", "error"}

\* isPortInUse with a rejected probe reported as "not in use"
isPortInUseSettleErrorAsFalse(p, h, outcome) ==
    CASE outcome = "reachable"   -> Return(TRUE)
      [] outcome = "unreachable" -> Return(FALSE)
      [] outcome = "error"       -> Return(FALSE)

\* isPortInUse with a PortError that leaves the host out
isPortInUseSettleNoHost(p, h, outcome) ==
    CASE outcome = "reachable"   -> Return(TRUE)
      [] outcome = "unreachable" -> Return(FALSE)
      [] outcome = "error"       -> PortError("check_failed", p, NoHost, NoInfo)

\* isPortInUse from the settling of isPortReachable on
isPortInUseSettle(p, h, outcome) ==
    CASE outcome = "reachable"   -> Return(TRUE)
      [] outcome = "unreachable" -> Return(FALSE)
      [] outcome = "error"       -> PortError("check_failed", p, h, NoInfo)

\* isPortAvailable without the negation
isPortAvailableNotNegated(r) == r

\* isPortAvailable turning a rejection into "not available"
isPortAvailableSwallowsError(r) == IF IsThrow(r) THEN Return(FALSE) ELSE Return(~r.value)

\* isPortAvailable: !(await isPortInUse(port, options)); a rejection passes through
isPortAvailableOf(r) == IF IsThrow(r) THEN r ELSE Return(~r.value)

----------------------------------------------------------------------------
(* Inputs *)

PortInputs ==
    {Int_(n) : n \in {-1, 0, 1, 2, 3, MaxPort - 1, MaxPort, MaxPort + 1}} \cup {Frac(2)}

\* a default host that is the loopback address
ResolveHostLoopback(h) == IF h = NoHost THEN "127.0.0.1" ELSE h

\* the host option: omitted, or a name
HostInputs == {NoHost, "example.test"}
\* `host = 'localhost'` of the destructurings
ResolveHost(h) == IF h = NoHost THEN DefaultHost ELSE h

MaxTriesInputs == {Undefined} \cup {Int_(n) : n \in -1..MaxTriesBound}
ProbeTimeoutInputs == {Int_(n) : n \in 0..MaxProbeTimeout}
PollIntervalInputs == {Int_(n) : n \in -1..MaxPollInterval}
OverallTimeoutInputs == {Int_(n) : n \in -1..MaxOverallTimeout}
TargetStates == {"available", "in-use"}

----------------------------------------------------------------------------
(* Initial state: no call made yet; the runtime is Node.js or it is not. *)

ClockStarts == {0, 5}

Init ==
    /\ isNode \in BOOLEAN
    /\ op = "idle"
    /\ pc = "idle"
    /\ result = Pending
    /\ startPort = Undefined
    /\ endPort = Undefined
    /\ maxTries = 0
    /\ host = NoHost
    /\ timeout = 0
    /\ currentPort = 0
    /\ attempts = 0
    /\ port = Undefined
    /\ targetState = ""
    /\ pollInterval = 0
    /\ overallTimeout = 0
    /\ startTime = 0
    /\ now \in ClockStarts
    /\ ports = <<>>
    /\ checks = <<>>
    /\ probed = <<>>
    /\ inflight = 0
    /\ lastOutcome = "none"
    /\ foundFree = {}
    /\ targetSeen = FALSE
    /\ errorCaught = FALSE
    /\ onTime = TRUE
    /\ options = NoOptions
    /\ args = NoArgs
    /\ locals = NoLocals

\* the call's promise settles with r
Settle(r) == result' = r /\ pc' = "done"

----------------------------------------------------------------------------
(* findAvailablePort *)

\* lines 139-158: destructuring with defaults, validation, let currentPort, attempts
findAvailablePort(s, e, m, h, tm) ==
    LET sp == Default(s, Int_(DefaultStartPort))
        ep == Default(e, Int_(DefaultEndPort))
        mt == Default(m, Int_(DefaultMaxTries))
        t  == Default(tm, Int_(DefaultTimeout))
        v1 == validatePort(sp)
        v2 == validatePort(ep)
    IN  /\ op' = "findAvailablePort"
        /\ startPort' = sp
        /\ endPort' = ep
        /\ maxTries' = mt.v
        /\ host' = ResolveHost(h)
        /\ timeout' = t.v
        /\ IF IsThrow(v1) THEN
               Settle(v1) /\ UNCHANGED <<currentPort, attempts>>
           ELSE IF IsThrow(v2) THEN
               Settle(v2) /\ UNCHANGED <<currentPort, attempts>>
           ELSE IF sp.v > ep.v THEN
               /\ Settle(PortError("start_gt_end", Undefined, NoHost,
                                   [NoInfo EXCEPT !.from = sp.v, !.to = ep.v]))
               /\ UNCHANGED <<currentPort, attempts>>
           ELSE
               /\ currentPort' = sp.v
               /\ attempts' = 0
               /\ pc' = "loop"
               /\ UNCHANGED result
        /\ options' = Options(s, e, m, h, tm, Undefined, Undefined)
        /\ UNCHANGED <<isNode, libVars, port, waitVars, now, batchVars, probed, inflight,
                       lastOutcome, foundFree, targetSeen, errorCaught, onTime>>

CallFindAvailablePort ==
    /\ op = "idle"
    /\ \E s \in PortInputs \cup {Undefined}, e \in PortInputs \cup {Undefined},
          m \in MaxTriesInputs, h \in HostInputs,
          tm \in {Undefined}:
          findAvailablePort(s, e, m, h, tm)

\* the cursor advanced by 2
FindNextPortSkips ==
    /\ currentPort' = currentPort + 2
    /\ attempts' = attempts + 1
    /\ pc' = "loop"

\* lines 171-172, reached after a probe that did not find the port free and
\* from the catch block alike
FindNextPort ==
    /\ currentPort' = currentPort + 1
    /\ attempts' = attempts + 1
    /\ pc' = "loop"

\* the loop condition with `attempts <= maxTries`
FindLoopConditionOffByOne == currentPort <= endPort.v /\ attempts <= maxTries

\* line 160: while (currentPort <= endPort && attempts < maxTries)
FindLoopCondition == currentPort <= endPort.v /\ attempts < maxTries

\* line 160 to the await of line 162, or the throw of lines 175-179
FindLoopHead ==
    /\ op = "findAvailablePort"
    /\ pc = "loop"
    /\ IF FindLoopCondition THEN
           LET entry == isPortInUseEntry(isNode, Int_(currentPort))
           IN  IF IsThrow(entry) THEN
                   \* isPortAvailable rejected before probing: catch, console.warn
                   /\ FindNextPort
                   /\ errorCaught' = TRUE
                   /\ UNCHANGED <<result, probed, inflight>>
               ELSE
                   /\ pc' = "probing"
                   /\ probed' = Append(probed, currentPort)
                   /\ inflight' = inflight + 1
                   /\ UNCHANGED <<result, currentPort, attempts, errorCaught>>
       ELSE
           /\ Settle(PortError("exhausted", Undefined, host,
                               [NoInfo EXCEPT !.from = startPort.v, !.to = endPort.v,
                                              !.attempts = attempts]))
           /\ UNCHANGED <<currentPort, attempts, probed, inflight, errorCaught>>
    /\ UNCHANGED <<isNode, libVars, options, op, startPort, endPort, maxTries, host, timeout, port,
                   waitVars, now, batchVars, lastOutcome, foundFree, targetSeen,
                   onTime>>

\* the catch block throwing the probe's error on
FindProbeSettlesRethrows ==
    /\ op = "findAvailablePort"
    /\ pc = "probing"
    /\ \E o \in Outcomes :
          LET available == isPortAvailableOf(isPortInUseSettle(Int_(currentPort), host, o))
          IN  /\ lastOutcome' = o
              /\ inflight' = inflight - 1
              /\ foundFree' = IF o = "unreachable" THEN foundFree \cup {currentPort}
                              ELSE foundFree
              /\ IF IsThrow(available) THEN
                     /\ Settle(available)
                     /\ errorCaught' = TRUE
                     /\ UNCHANGED <<currentPort, attempts>>
                 ELSE IF available.value THEN
                     /\ Settle(Return(currentPort))
                     /\ UNCHANGED <<currentPort, attempts, errorCaught>>
                 ELSE
                     /\ FindNextPort
                     /\ UNCHANGED <<result, errorCaught>>
    /\ UNCHANGED <<isNode, libVars, options, op, startPort, endPort, maxTries, host, timeout, port,
                   waitVars, now, batchVars, probed, targetSeen, onTime>>

\* lines 162-172: the awaited isPortAvailable settles
FindProbeSettles ==
    /\ op = "findAvailablePort"
    /\ pc = "probing"
    /\ \E o \in Outcomes :
          LET available == isPortAvailableOf(isPortInUseSettle(Int_(currentPort), host, o))
          IN  /\ lastOutcome' = o
              /\ inflight' = inflight - 1
              /\ foundFree' = IF o = "unreachable" THEN foundFree \cup {currentPort}
                              ELSE foundFree
              /\ IF IsThrow(available) THEN
                     /\ FindNextPort
                     /\ errorCaught' = TRUE
                     /\ UNCHANGED result
                 ELSE IF available.value THEN
                     /\ Settle(Return(currentPort))
                     /\ UNCHANGED <<currentPort, attempts, errorCaught>>
                 ELSE
                     /\ FindNextPort
                     /\ UNCHANGED <<result, errorCaught>>
    /\ UNCHANGED <<isNode, libVars, options, op, startPort, endPort, maxTries, host, timeout, port,
                   waitVars, now, batchVars, probed, targetSeen, onTime>>

----------------------------------------------------------------------------
(* isPortInUse and isPortAvailable *)

\* lines 70-82 up to the await: environment, validation, destructuring, probe
isPortInUse(name, p, h, tm) ==
    LET entry == isPortInUseEntry(isNode, p)
    IN  /\ op' = name
        /\ port' = p
        /\ IF IsThrow(entry) THEN
               /\ Settle(entry)
               /\ UNCHANGED <<host, timeout, probed, inflight>>
           ELSE
               /\ host' = ResolveHost(h)
               /\ timeout' = Default(tm, Int_(DefaultTimeout)).v
               /\ pc' = "probing"
               /\ probed' = Append(probed, p.v)
               /\ inflight' = inflight + 1
               /\ UNCHANGED result
        /\ options' = Options(Undefined, Undefined, Undefined, h, tm, Undefined, Undefined)
        /\ UNCHANGED <<isNode, libVars, findVars, waitVars, now, batchVars, lastOutcome,
                       foundFree, targetSeen, errorCaught, onTime>>

CallIsPortInUse ==
    /\ op = "idle"
    /\ \E p \in PortInputs, h \in HostInputs, tm \in {Undefined} :
          isPortInUse("isPortInUse", p, h, tm)

\* lines 110-115: isPortAvailable calls isPortInUse(port, options)
CallIsPortAvailable ==
    /\ op = "idle"
    /\ \E p \in PortInputs, h \in HostInputs, tm \in {Undefined} :
          isPortInUse("isPortAvailable", p, h, tm)

\* lines 82-89: the awaited isPortReachable settles
IsPortInUseSettles ==
    /\ op = "isPortInUse"
    /\ pc = "probing"
    /\ \E o \in Outcomes :
          /\ lastOutcome' = o
          /\ inflight' = inflight - 1
          /\ Settle(isPortInUseSettle(port, host, o))
    /\ UNCHANGED <<isNode, libVars, options, op, findVars, host, timeout, port, waitVars, now,
                   batchVars, probed, foundFree, targetSeen, errorCaught, onTime>>

\* line 114: the awaited isPortInUse settles
IsPortAvailableSettles ==
    /\ op = "isPortAvailable"
    /\ pc = "probing"
    /\ \E o \in Outcomes :
          /\ lastOutcome' = o
          /\ inflight' = inflight - 1
          /\ Settle(isPortAvailableOf(isPortInUseSettle(port, host, o)))
    /\ UNCHANGED <<isNode, libVars, options, op, findVars, host, timeout, port, waitVars, now,
                   batchVars, probed, foundFree, targetSeen, errorCaught, onTime>>

----------------------------------------------------------------------------
(* waitForPort *)

\* lines 248-267: validation, destructuring with defaults, startTime
waitForPort(p, ts, h, tm, pi, ot) ==
    LET v == validatePort(p)
    IN  /\ op' = "waitForPort"
        /\ port' = p
        /\ targetState' = ts
        /\ IF IsThrow(v) THEN
               /\ Settle(v)
               /\ UNCHANGED <<host, timeout, pollInterval, overallTimeout, startTime>>
           ELSE
               /\ host' = ResolveHost(h)
               /\ timeout' = Default(tm, Int_(DefaultTimeout)).v
               /\ pollInterval' = Default(pi, Int_(DefaultPollInterval)).v
               /\ overallTimeout' = Default(ot, Int_(DefaultOverallTimeout)).v
               /\ startTime' = now
               /\ pc' = "loop"
               /\ UNCHANGED result
        /\ options' = Options(Undefined, Undefined, Undefined, h, tm, pi, ot)
        /\ UNCHANGED <<isNode, libVars, findVars, now, batchVars, probed, inflight,
                       lastOutcome, foundFree, targetSeen, errorCaught, onTime>>

\* The timing options are drawn explicit: the defaults (30000, 1000 and 5000 ms)
\* put tens of thousands of clock values between the call and its deadline.
CallWaitForPort ==
    /\ op = "idle"
    /\ \E p \in PortInputs, ts \in TargetStates, h \in HostInputs,
          tm \in ProbeTimeoutInputs, pi \in PollIntervalInputs,
          ot \in OverallTimeoutInputs :
          waitForPort(p, ts, h, tm, pi, ot)

\* lines 248-267 with timing options that may be omitted
CallWaitForPortOmitting ==
    /\ op = "idle"
    /\ \E p \in PortInputs, ts \in TargetStates, h \in HostInputs,
          tm \in ProbeTimeoutInputs \cup {Undefined},
          pi \in PollIntervalInputs \cup {Undefined},
          ot \in OverallTimeoutInputs \cup {Undefined} :
          /\ Undefined \in {tm, pi, ot}
          /\ waitForPort(p, ts, h, tm, pi, ot)

\* the catch block leaving the iteration without the sleep
WaitSkipsSleep == pc' = "loop"

\* line 282: setTimeout(resolve, pollInterval) is started
WaitSleep == pc' = "sleeping"

\* the loop condition with the clock read as time since the call
WaitLoopConditionAbsoluteClock == now < overallTimeout

\* line 269: while (Date.now() - startTime < overallTimeout)
WaitLoopCondition == now - startTime < overallTimeout

\* line 269 to the await of line 271, or the throw of lines 285-289
WaitLoopHead ==
    /\ op = "waitForPort"
    /\ pc = "loop"
    /\ IF WaitLoopCondition THEN
           LET entry == isPortInUseEntry(isNode, port)
           IN  IF IsThrow(entry) THEN
                   \* isPortInUse rejected before probing: catch, console.warn
                   /\ WaitSleep
                   /\ errorCaught' = TRUE
                   /\ UNCHANGED <<result, probed, inflight>>
               ELSE
                   /\ pc' = "probing"
                   /\ probed' = Append(probed, port.v)
                   /\ inflight' = inflight + 1
                   /\ UNCHANGED <<result, errorCaught>>
       ELSE
           /\ Settle(PortError("timeout", port, host,
                               [NoInfo EXCEPT !.target = targetState,
                                              !.ms = overallTimeout]))
           /\ UNCHANGED <<probed, inflight, errorCaught>>
    /\ UNCHANGED <<isNode, libVars, options, op, findVars, host, timeout, port, waitVars, now,
                   batchVars, lastOutcome, foundFree, targetSeen, onTime>>

\* the probe saw the port in state ts: reachable is in use, not reachable is available
Observes(o, ts) ==
    \/ o = "reachable" /\ ts = "in-use"
    \/ o = "unreachable" /\ ts = "available"

\* the time one isPortReachable call may take: up to the probe timeout, or later
ProbeDurations == 0..((IF timeout < 0 THEN 0 ELSE timeout) + MaxLate)

\* lines 271-282: the awaited isPortInUse settles, d ms after it was called
WaitProbeSettles ==
    /\ op = "waitForPort"
    /\ pc = "probing"
    /\ \E o \in Outcomes, d \in ProbeDurations :
          LET inUse == isPortInUseSettle(port, host, o)
              currentState == IF inUse.value THEN "in-use" ELSE "available"
          IN  /\ lastOutcome' = o
              /\ inflight' = inflight - 1
              /\ now' = now + d
              /\ onTime' = (onTime /\ d <= timeout)
              /\ targetSeen' = (targetSeen \/ Observes(o, targetState))
              /\ IF IsThrow(inUse) THEN
                     /\ WaitSleep
                     /\ errorCaught' = TRUE
                     /\ UNCHANGED result
                 ELSE IF currentState = targetState THEN
                     /\ Settle(Ok)
                     /\ UNCHANGED errorCaught
                 ELSE
                     /\ WaitSleep
                     /\ UNCHANGED <<result, errorCaught>>
    /\ UNCHANGED <<isNode, libVars, options, op, findVars, host, timeout, port, waitVars,
                   batchVars, probed, foundFree>>

\* a timer that may fire at once
TimerDelayZero(ms) == IF ms < 0 THEN 0 ELSE ms

\* setTimeout of Node.js: a delay below 1 ms is set to 1 ms
TimerDelay(ms) == IF ms < 1 THEN 1 ELSE ms

\* the time the sleep of line 282 may take: the timer's delay, or later
SleepDurations == TimerDelay(pollInterval)..(TimerDelay(pollInterval) + MaxLate)

\* line 282: the timer fires, d ms after it was set, and the loop goes on
WaitSleepEnds ==
    /\ op = "waitForPort"
    /\ pc = "sleeping"
    /\ \E d \in SleepDurations :
          /\ now' = now + d
          /\ onTime' = (onTime /\ d = pollInterval)
    /\ pc' = "loop"
    /\ UNCHANGED <<isNode, libVars, options, op, result, findVars, host, timeout, port, waitVars,
                   batchVars, probed, inflight, lastOutcome, foundFree, targetSeen,
                   errorCaught>>

----------------------------------------------------------------------------
(* checkMultiplePorts *)

\* a Map<number, boolean>: its keys in insertion order, and the value of each
EmptyMap == [keys |-> <<>>, val |-> <<>>]

MapHas(m, k) == \E i \in 1..Len(m.keys) : m.keys[i] = k

MapGet(m, k) == LET i == CHOOSE i \in 1..Len(m.keys) : m.keys[i] = k IN m.val[i]

\* a set that appends an entry even when the key is present
MapSetAppends(m, k, v) == [keys |-> Append(m.keys, k), val |-> Append(m.val, v)]

\* Map.prototype.set: a new key is appended, a present key keeps its place
MapSet(m, k, v) ==
    IF MapHas(m, k)
    THEN [m EXCEPT !.val = [i \in 1..Len(m.keys) |-> IF m.keys[i] = k THEN v ELSE m.val[i]]]
    ELSE [keys |-> Append(m.keys, k), val |-> Append(m.val, v)]

\* the place of element i when the elements are taken in the order they settled
CompletionRank(cs, i) ==
    1 + Cardinality({j \in 1..Len(cs) : \/ cs[j].order < cs[i].order
                                        \/ cs[j].order = cs[i].order /\ j < i})

\* a map filled in the order the checks settled
RECURSIVE SetAllByCompletion(_, _, _)
SetAllByCompletion(m, cs, k) ==
    IF k > Len(cs) THEN m
    ELSE LET i == CHOOSE i \in 1..Len(cs) : CompletionRank(cs, i) = k
         IN  SetAllByCompletion(MapSet(m, cs[i].port.v, cs[i].available), cs, k + 1)

\* lines 220-222: checkResults.forEach(({ port, available }) => results.set(port, available))
RECURSIVE SetAll(_, _, _)
SetAll(m, cs, i) ==
    IF i > Len(cs) THEN m
    ELSE SetAll(MapSet(m, cs[i].port.v, cs[i].available), cs, i + 1)

\* a validation that looks at the element i only
ValidateFirstOnly(ps, i) == IF i > Len(ps) THEN Ok ELSE validatePort(ps[i])

\* line 205: ports.forEach(validatePort) throws at the first invalid port
RECURSIVE ValidateAll(_, _)
ValidateAll(ps, i) ==
    IF i > Len(ps) THEN Ok
    ELSE IF IsThrow(validatePort(ps[i])) THEN validatePort(ps[i])
    ELSE ValidateAll(ps, i + 1)

\* lines 208-216 up to the await of one element: the async callback calls
\* isPortAvailable at once, so its probe is started (or has thrown) inside map
StartCheck(p) ==
    IF IsThrow(isPortInUseEntry(isNode, p))
    THEN [port |-> p, state |-> "settled", available |-> FALSE, outcome |-> "none",
          order |-> 0]
    ELSE [port |-> p, state |-> "pending", available |-> FALSE, outcome |-> "none",
          order |-> 0]

Pendings(cs) == {i \in 1..Len(cs) : cs[i].state = "pending"}

\* a catch block that reports the port as available
CheckAvailableErrorAsTrue(available) ==
    IF IsThrow(available) THEN TRUE ELSE available.value

\* lines 209-215: the value of one element; the catch block gives false
CheckAvailable(available) ==
    IF IsThrow(available) THEN FALSE ELSE available.value

\* a combinator that resolves as soon as one element has settled
AnySettled(cs) == \E i \in 1..Len(cs) : cs[i].state = "settled"

\* line 218: Promise.all resolves when every element has settled (none rejects,
\* each callback catches its error)
AllSettled(cs) == Pendings(cs) = {}

\* the ports of the pending checks, in list order
RECURSIVE PendingPorts(_, _)
PendingPorts(cs, i) ==
    IF i > Len(cs) THEN <<>>
    ELSE IF cs[i].state = "pending" THEN <<cs[i].port.v>> \o PendingPorts(cs, i + 1)
    ELSE PendingPorts(cs, i + 1)

\* lines 198-218 up to the await of Promise.all
checkMultiplePorts(ps, h, tm) ==
    LET v  == ValidateAll(ps, 1)
        cs == [i \in 1..Len(ps) |-> StartCheck(ps[i])]
    IN  /\ op' = "checkMultiplePorts"
        /\ ports' = ps
        /\ IF IsThrow(v) THEN
               /\ Settle(v)
               /\ UNCHANGED <<host, timeout, checks, probed, inflight, errorCaught>>
           ELSE
               /\ host' = ResolveHost(h)
               /\ timeout' = Default(tm, Int_(DefaultTimeout)).v
               /\ checks' = cs
               /\ probed' = probed \o PendingPorts(cs, 1)
               /\ inflight' = inflight + Cardinality(Pendings(cs))
               /\ errorCaught' = (errorCaught \/ Pendings(cs) # DOMAIN cs)
               /\ pc' = "all"
               /\ UNCHANGED result
        /\ options' = Options(Undefined, Undefined, Undefined, h, tm, Undefined, Undefined)
        /\ UNCHANGED <<isNode, libVars, findVars, port, waitVars, now, lastOutcome,
                       foundFree, targetSeen, onTime>>

\* the ports given to checkMultiplePorts: invalid ones, and two valid ones so
\* that a list can repeat a port next to another one
BatchPortInputs == {Int_(0), Int_(1), Int_(MaxPort), Frac(2)}

\* the lists of at most n ports
RECURSIVE PortLists(_)
PortLists(n) ==
    IF n = 0 THEN {<<>>}
    ELSE PortLists(n - 1) \cup
         {Append(l, p) : l \in {x \in PortLists(n - 1) : Len(x) = n - 1}, p \in BatchPortInputs}

CallCheckMultiplePorts ==
    /\ op = "idle"
    /\ \E ps \in PortLists(MaxPorts), h \in HostInputs, tm \in {Undefined} :
          checkMultiplePorts(ps, h, tm)

\* lines 210-215: the isPortAvailable awaited by element i settles
CheckProbeSettles ==
    /\ op = "checkMultiplePorts"
    /\ pc = "all"
    /\ \E i \in Pendings(checks), o \in Outcomes :
          LET available == isPortAvailableOf(isPortInUseSettle(checks[i].port, host, o))
          IN  /\ lastOutcome' = o
              /\ inflight' = inflight - 1
              /\ errorCaught' = (errorCaught \/ IsThrow(available))
              /\ checks' = [checks EXCEPT ![i] =
                                [port |-> checks[i].port, state |-> "settled",
                                 available |-> CheckAvailable(available),
                                 outcome |-> o,
                                 order |-> Len(checks) - Cardinality(Pendings(checks)) + 1]]
    /\ UNCHANGED <<isNode, libVars, options, op, pc, result, findVars, host, timeout, port, waitVars,
                   now, ports, probed, foundFree, targetSeen, onTime>>

\* lines 218-224: Promise.all has resolved; the map is filled and returned
CheckMultipleResolves ==
    /\ op = "checkMultiplePorts"
    /\ pc = "all"
    /\ AllSettled(checks)
    /\ Settle(Return(SetAll(EmptyMap, checks, 1)))
    /\ UNCHANGED <<isNode, libVars, options, op, findVars, host, timeout, port, waitVars, now,
                   batchVars, probed, inflight, lastOutcome, foundFree, targetSeen,
                   errorCaught, onTime>>

----------------------------------------------------------------------------
Next ==
    \/ CallFindAvailablePort
    \/ FindLoopHead
    \/ FindProbeSettles
    \/ CallIsPortInUse
    \/ IsPortInUseSettles
    \/ CallIsPortAvailable
    \/ IsPortAvailableSettles
    \/ CallWaitForPort
    \/ WaitLoopHead
    \/ WaitProbeSettles
    \/ WaitSleepEnds
    \/ CallCheckMultiplePorts
    \/ CheckProbeSettles
    \/ CheckMultipleResolves

Spec == Init /\ [][Next]_vars

\* waitForPort under its scheduling: the event loop runs a continuation that is
\* ready, every probe settles and every timer fires
LiveSpec ==
    /\ Spec
    /\ WF_vars(WaitLoopHead)
    /\ WF_vars(WaitProbeSettles)
    /\ WF_vars(WaitSleepEnds)

\* The calls with any of their options omitted.  waitForPort is followed up to
\* its loop: with the default deadline and intervals the loop runs over tens of
\* thousands of clock values.
NextOptions ==
    \/ CallFindAvailablePort
    \/ FindLoopHead
    \/ FindProbeSettles
    \/ CallIsPortInUse
    \/ IsPortInUseSettles
    \/ CallIsPortAvailable
    \/ IsPortAvailableSettles
    \/ CallWaitForPortOmitting
    \/ CallCheckMultiplePorts
    \/ CheckProbeSettles
    \/ CheckMultipleResolves

OptionsSpec == Init /\ [][NextOptions]_vars

----------------------------------------------------------------------------
(* Properties of findAvailablePort *)

\* what the port table of the specification calls a port number
ValidPortNumber(x) == x.t = "int" /\ x.v >= 1 /\ x.v <= 65535

FindReturned == op = "findAvailablePort" /\ result.kind = "return"

\* C1: a port p returned by findAvailablePort({startPort: S, endPort: E}) has
\* S <= p <= E, and the ports the call probed are S, S+1, S+2, ... in this
\* order, none skipped and none probed twice.
C1_AscendingProbes ==
    op = "findAvailablePort" =>
        /\ \A i \in 1..Len(probed) : probed[i] = startPort.v + (i - 1)
        /\ result.kind = "return" =>
               /\ startPort.v <= result.value
               /\ result.value <= endPort.v

\* a call that returned the third port of a longer range
C1_Witness ==
    /\ FindReturned
    /\ Len(probed) = 3
    /\ result.value = startPort.v + 2
    /\ result.value < endPort.v

\* C2: findAvailablePort returns the first port found free: the probe of the
\* returned port p was its last probe and reported p available, and every port
\* of startPort..p-1 was probed before p and never observed available.
C2_FirstFreePort ==
    FindReturned =>
        LET p == result.value
            n == Len(probed)
        IN  /\ n >= 1
            /\ probed[n] = p
            /\ lastOutcome = "unreachable"
            /\ inflight = 0
            /\ pc = "done"
            /\ \A q \in startPort.v..(p - 1) :
                   /\ \E i \in 1..(n - 1) : probed[i] = q
                   /\ q \notin foundFree

\* a call that returned after two ports that were in use or whose probe failed
C2_Witness ==
    /\ FindReturned
    /\ result.value = startPort.v + 2
    /\ errorCaught
    /\ foundFree = {result.value}

\* C3: findAvailablePort makes at most min(maxTries, endPort - startPort + 1)
\* probes, so a returned port is at most startPort + maxTries - 1; with
\* maxTries = 1 it makes at most one probe and fails with the exhaustion error
\* when startPort was occupied, the later ports of the range never tried.
C3_ProbeCap ==
    op = "findAvailablePort" =>
        /\ \A i \in 1..Len(probed) :
               /\ i <= maxTries
               /\ i <= endPort.v - startPort.v + 1
        /\ result.kind = "return" => result.value <= startPort.v + maxTries - 1
        /\ (maxTries = 1 /\ pc = "done" /\ Len(probed) = 1 /\ lastOutcome = "reachable") =>
               /\ result.kind = "throw"
               /\ result.name = "PortError"
               /\ result.msg = "exhausted"

\* maxTries = 1 on a range of three ports: one probe, of startPort, then exhaustion
C3_Witness ==
    /\ op = "findAvailablePort"
    /\ maxTries = 1
    /\ endPort.v = startPort.v + 2
    /\ probed = <<startPort.v>>
    /\ lastOutcome = "reachable"
    /\ result.msg = "exhausted"

\* C4: findAvailablePort called with startPort > endPort, or with a startPort
\* or endPort that is no valid port number, fails with a PortError of
\* validation and makes no probe.
C4_ValidationBeforeProbe ==
    (/\ op = "findAvailablePort"
     /\ \/ ~ValidPortNumber(startPort)
        \/ ~ValidPortNumber(endPort)
        \/ startPort.v > endPort.v) =>
        /\ pc = "done"
        /\ result.kind = "throw"
        /\ result.name = "PortError"
        /\ result.msg \in {"invalid_port", "start_gt_end"}
        /\ probed = <<>>
        /\ inflight = 0

\* two valid bounds in the wrong order
C4_Witness ==
    /\ op = "findAvailablePort"
    /\ ValidPortNumber(startPort)
    /\ ValidPortNumber(endPort)
    /\ startPort.v > endPort.v
    /\ result.msg = "start_gt_end"

----------------------------------------------------------------------------
(* Properties of validation and of the environment check *)

\* the call failed with validatePort's error for p, and probed nothing
RejectedAsInvalid(p) ==
    /\ pc = "done"
    /\ result.kind = "throw"
    /\ result.name = "PortError"
    /\ result.msg = "invalid_port"
    /\ result.port = p
    /\ probed = <<>>

AllValid(ps) == \A i \in 1..Len(ps) : ValidPortNumber(ps[i])

\* C5: the port validator accepts p exactly when p is an integer with
\* 1 <= p <= 65535 and rejects every other number with a PortError carrying
\* p; isPortInUse and isPortAvailable (in a Node.js runtime, where they reach
\* the validator), checkMultiplePorts and waitForPort reject an invalid port
\* this way, and a valid one never.
C5_PortValidation ==
    /\ \A p \in PortInputs :
           IF ValidPortNumber(p) THEN validatePort(p) = Ok
           ELSE /\ validatePort(p).kind = "throw"
                /\ validatePort(p).name = "PortError"
                /\ validatePort(p).port = p
    /\ (op \in {"isPortInUse", "isPortAvailable"} /\ isNode) =>
           IF ValidPortNumber(port) THEN result.msg # "invalid_port"
           ELSE RejectedAsInvalid(port)
    /\ op = "waitForPort" =>
           IF ValidPortNumber(port) THEN result.msg # "invalid_port"
           ELSE RejectedAsInvalid(port)
    /\ op = "checkMultiplePorts" =>
           IF AllValid(ports) THEN result.msg # "invalid_port"
           ELSE \E i \in 1..Len(ports) :
                    /\ ~ValidPortNumber(ports[i])
                    /\ AllValid(SubSeq(ports, 1, i - 1))
                    /\ RejectedAsInvalid(ports[i])

\* isPortInUse(65536) in Node.js
C5_Witness ==
    /\ op = "isPortInUse"
    /\ isNode
    /\ port = Int_(65536)
    /\ RejectedAsInvalid(port)

\* arguments the validation of the operation in progress lets through, and
\* that ask for at least one probe
ProbingCall ==
    CASE op = "findAvailablePort" ->
             /\ ValidPortNumber(startPort)
             /\ ValidPortNumber(endPort)
             /\ startPort.v <= endPort.v
             /\ maxTries >= 1
      [] op = "waitForPort" -> ValidPortNumber(port) /\ overallTimeout >= 1
      [] op = "checkMultiplePorts" -> AllValid(ports) /\ Len(ports) >= 1
      [] OTHER -> op # "idle"

\* C6: outside a Node.js runtime every public port operation fails with the
\* EnvironmentError, before any network attempt; it does not return a value,
\* report exhaustion or wait out a deadline (stated for calls whose arguments
\* are valid and ask for at least one probe).
C6_EnvironmentErrorFirst ==
    (~isNode /\ pc = "done" /\ ProbingCall) =>
        /\ result.kind = "throw"
        /\ result.name = "EnvironmentError"
        /\ probed = <<>>

----------------------------------------------------------------------------
(* Properties of waitForPort *)

Elapsed == now - startTime

\* the probe outcome that shows the port in state ts
OutcomeOf(ts) == IF ts = "in-use" THEN "reachable" ELSE "unreachable"

\* C7: waitForPort returns successfully only when the most recent probe of its
\* loop observed the target state: never after a probe that errored or saw the
\* other state, and never without a probe.
C7_ReturnsOnObservedTarget ==
    (op = "waitForPort" /\ result.kind = "return") =>
        /\ Len(probed) >= 1
        /\ inflight = 0
        /\ lastOutcome = OutcomeOf(targetState)

\* a return for 'available' on the second probe, the first one having errored
C7_Witness ==
    /\ op = "waitForPort"
    /\ result.kind = "return"
    /\ targetState = "available"
    /\ Len(probed) = 2
    /\ errorCaught

\* C8: the timeout error of waitForPort is raised no earlier than
\* overallTimeout after the call started and, when every probe took at most
\* the probe timeout and every sleep lasted pollInterval (the three durations
\* not negative), no later than overallTimeout + pollInterval + timeout.
C8_TimeoutWindow ==
    (op = "waitForPort" /\ pc = "done" /\ result.msg = "timeout") =>
        /\ Elapsed >= overallTimeout
        /\ (onTime /\ overallTimeout >= 0 /\ pollInterval >= 0 /\ timeout >= 0) =>
               Elapsed <= overallTimeout + pollInterval + timeout

\* a port that never frees up, the last iteration begun 1 ms before the deadline
C8_Witness ==
    /\ op = "waitForPort"
    /\ result.msg = "timeout"
    /\ targetState = "available"
    /\ onTime
    /\ ~targetSeen
    /\ Len(probed) >= 2
    /\ pollInterval >= 1
    /\ timeout >= 1
    /\ Elapsed = overallTimeout + pollInterval + timeout - 1

\* C9: every call of waitForPort terminates; with a valid port it returns if a
\* probe of its loop observed the target state, and otherwise throws the
\* timeout PortError, which carries the port and the host and names the
\* overall timeout and the target state.
C9_WaitTerminates ==
    /\ [](( op = "waitForPort" /\ pc = "done" /\ ValidPortNumber(port)) =>
             IF targetSeen THEN result = Ok
             ELSE result = PortError("timeout", port, host,
                                     [NoInfo EXCEPT !.target = targetState,
                                                    !.ms = overallTimeout]))
    /\ (op = "waitForPort") ~> (pc = "done")

\* a timeout after two probes, on a host given by the caller
C9_Witness ==
    /\ op = "waitForPort"
    /\ result.msg = "timeout"
    /\ result.host = "example.test"
    /\ result.port = port
    /\ Len(probed) >= 2
    /\ ~targetSeen

\* C10: a probe of waitForPort that raises an error does not abort the call: the
\* error is caught, the call sleeps for pollInterval and, the deadline not
\* passed, probes again; after validation the only failure is the timeout.
C10_ProbeErrorSwallowed ==
    /\ [][(op = "waitForPort" /\ pc = "probing" /\ pc' # pc /\ lastOutcome' = "error") =>
              (pc' = "sleeping" /\ result' = Pending /\ errorCaught')]_vars
    /\ [][(op = "waitForPort" /\ pc = "sleeping" /\ pc' # pc) =>
              (pc' = "loop" /\ result' = Pending /\ now' - now >= pollInterval)]_vars
    /\ [][(op = "waitForPort" /\ pc = "loop" /\ pc' # pc /\ isNode
             /\ now - startTime < overallTimeout) =>
              (pc' = "probing" /\ probed' = Append(probed, port.v))]_vars
    /\ []((op = "waitForPort" /\ result.kind = "throw") =>
              /\ result.name = "PortError"
              /\ result.msg \in {"invalid_port", "timeout"}
              /\ ValidPortNumber(port) => result.msg = "timeout")

\* a probe error, then a sleep, then a probe that saw the target state
C10_Witness ==
    /\ op = "waitForPort"
    /\ isNode
    /\ errorCaught
    /\ result.kind = "return"
    /\ Len(probed) >= 2
    /\ lastOutcome = OutcomeOf(targetState)

----------------------------------------------------------------------------
(* Properties of the swallowed probe errors, of the batch and of the options *)

\* C11: in findAvailablePort a probe that raises an error is treated like a
\* port observed in use: the error is not propagated, the cursor and the attempt
\* counter advance by 1 and the scan goes on with the next port.
C11_FindProbeErrorIsNotFree ==
    /\ [][(/\ op = "findAvailablePort"
           /\ pc = "probing"
           /\ pc' # pc
           /\ lastOutcome' \in {"error", "reachable"}) =>
              (/\ pc' = "loop"
               /\ result' = Pending
               /\ currentPort' = currentPort + 1
               /\ attempts' = attempts + 1
               /\ errorCaught' = (errorCaught \/ lastOutcome' = "error"))]_vars
    /\ [][(/\ op = "findAvailablePort"
           /\ pc = "loop"
           /\ pc' # pc
           /\ isNode
           /\ currentPort <= endPort.v
           /\ attempts < maxTries) =>
              (pc' = "probing" /\ probed' = Append(probed, currentPort))]_vars
    /\ []((op = "findAvailablePort" /\ result.kind = "throw") =>
              /\ result.name = "PortError"
              /\ result.msg \in {"invalid_port", "start_gt_end", "exhausted"})

\* the first probe has raised an error and the scan is at the next port
C11_Witness ==
    /\ op = "findAvailablePort"
    /\ isNode
    /\ pc = "probing"
    /\ lastOutcome = "error"
    /\ errorCaught
    /\ attempts = 1
    /\ currentPort = startPort.v + 1
    /\ probed = <<startPort.v, startPort.v + 1>>

\* checkMultiplePorts has resolved or rejected
CheckDone == op = "checkMultiplePorts" /\ pc = "done"

\* the distinct port numbers of a list
PortSet(ps) == {ps[i].v : i \in 1..Len(ps)}

\* C12: for every list of valid ports checkMultiplePorts resolves to a map whose
\* key set is exactly the set of distinct input ports: every input port is a key
\* exactly once, no other key appears, duplicates collapse.
C12_KeysAreDistinctInputs ==
    (CheckDone /\ AllValid(ports)) =>
        /\ result.kind = "return"
        /\ {result.value.keys[i] : i \in 1..Len(result.value.keys)} = PortSet(ports)
        /\ \A i, j \in 1..Len(result.value.keys) :
              result.value.keys[i] = result.value.keys[j] => i = j
        /\ Len(result.value.keys) = Cardinality(PortSet(ports))
        /\ Len(result.value.val) = Len(result.value.keys)

\* a list of three with a repeated port and another one gave a map of two keys
C12_Witness ==
    /\ CheckDone
    /\ AllValid(ports)
    /\ Len(ports) = 3
    /\ ports[1] = ports[2]
    /\ ports[3] # ports[1]
    /\ result.kind = "return"
    /\ result.value.keys = <<ports[1].v, ports[3].v>>

\* C13: checkMultiplePorts validates every port before starting any probe: with
\* an invalid port anywhere in the list the call fails with the validation error
\* and no probe is started for any port, the valid ones before it included.
C13_BatchRejectedBeforeProbes ==
    (op = "checkMultiplePorts" /\ ~AllValid(ports)) =>
        /\ pc = "done"
        /\ result.kind = "throw"
        /\ result.name = "PortError"
        /\ result.msg = "invalid_port"
        /\ \E i \in 1..Len(ports) :
              /\ ~ValidPortNumber(ports[i])
              /\ result.port = ports[i]
              /\ \A j \in 1..(i - 1) : ValidPortNumber(ports[j])
        /\ probed = <<>>
        /\ inflight = 0
        /\ checks = <<>>

\* a valid port listed before an invalid one: rejected, nothing probed
C13_Witness ==
    /\ CheckDone
    /\ isNode
    /\ Len(ports) >= 2
    /\ ValidPortNumber(ports[1])
    /\ ~ValidPortNumber(ports[2])
    /\ result.kind = "throw"
    /\ result.port = ports[2]
    /\ probed = <<>>

\* element i is the last one of the list with its port
LastOf(ps, i) == \A j \in (i + 1)..Len(ps) : ps[j] # ps[i]

\* C14: in checkMultiplePorts a probe that errors is recorded as false for its
\* port and does not fail the batch: the call resolves, and the value of every
\* port is the negation of its own probe's result (of the last element with that
\* port), whatever the other probes did.
C14_ErrorIsFalseSiblingsKept ==
    (CheckDone /\ AllValid(ports)) =>
        /\ result.kind = "return"
        /\ \A i \in 1..Len(ports) :
              /\ checks[i].state = "settled"
              /\ checks[i].port = ports[i]
              /\ MapHas(result.value, ports[i].v)
              /\ LastOf(ports, i) =>
                    /\ checks[i].outcome = "error" => MapGet(result.value, ports[i].v) = FALSE
                    /\ checks[i].outcome = "reachable" => MapGet(result.value, ports[i].v) = FALSE
                    /\ checks[i].outcome = "unreachable" => MapGet(result.value, ports[i].v) = TRUE
                    /\ checks[i].outcome = "none" => (~isNode /\ MapGet(result.value, ports[i].v) = FALSE)

\* one probe raised an error, its sibling found its port free
C14_Witness ==
    /\ CheckDone
    /\ isNode
    /\ AllValid(ports)
    /\ Len(ports) = 2
    /\ ports[1] # ports[2]
    /\ result.kind = "return"
    /\ checks[1].outcome = "error"
    /\ checks[2].outcome = "unreachable"
    /\ MapGet(result.value, ports[1].v) = FALSE
    /\ MapGet(result.value, ports[2].v) = TRUE

\* what isPortInUse settles with, for an environment, a port, a host and the
\* outcome of the probe (which is not looked at when no probe is started)
InUseResult(node, p, h, o) ==
    IF IsThrow(isPortInUseEntry(node, p)) THEN isPortInUseEntry(node, p)
    ELSE isPortInUseSettle(p, h, o)

\* C15: for the same port, host and probe outcome isPortAvailable resolves to the
\* negation of what isPortInUse resolves to, and when isPortInUse fails (invalid
\* port, environment, probe failure) isPortAvailable fails with the same error.
C15_AvailableIsNegationOfInUse ==
    /\ (op = "isPortInUse" /\ pc = "done") =>
          result = InUseResult(isNode, port, host, lastOutcome)
    /\ (op = "isPortAvailable" /\ pc = "done") =>
          LET inUse == InUseResult(isNode, port, host, lastOutcome)
          IN  /\ inUse.kind = "return" =>
                    /\ result.kind = "return"
                    /\ result.value \in BOOLEAN
                    /\ result.value = ~inUse.value
              /\ inUse.kind = "throw" => result = inUse

\* isPortAvailable resolved true on a port whose probe found nothing listening
C15_Witness ==
    /\ op = "isPortAvailable"
    /\ pc = "done"
    /\ isNode
    /\ lastOutcome = "unreachable"
    /\ InUseResult(isNode, port, host, lastOutcome) = Return(FALSE)
    /\ result = Return(TRUE)

\* C16: in Node.js isPortInUse on a valid port resolves true when the connection
\* succeeds and false when it is refused or times out, without throwing; it
\* throws only for an invalid port or a failure of the probe, and then the
\* PortError carries the port and, for the probe failure, the host.
C16_InUseThrowsOnlyOnBadPortOrProbeFailure ==
    (op = "isPortInUse" /\ pc = "done" /\ isNode) =>
        /\ (ValidPortNumber(port) /\ lastOutcome = "reachable") => result = Return(TRUE)
        /\ (ValidPortNumber(port) /\ lastOutcome = "unreachable") => result = Return(FALSE)
        /\ result.kind = "throw" =>
              /\ result.name = "PortError"
              /\ result.port = port
              /\ \/ /\ ~ValidPortNumber(port)
                    /\ result.msg = "invalid_port"
                    /\ probed = <<>>
                 \/ /\ ValidPortNumber(port)
                    /\ lastOutcome = "error"
                    /\ result.msg = "check_failed"
                    /\ result.host = host
                    /\ result.host \in {DefaultHost, "example.test"}

\* the probe of a valid port failed: a PortError with the port and the host
C16_Witness ==
    /\ op = "isPortInUse"
    /\ pc = "done"
    /\ isNode
    /\ ValidPortNumber(port)
    /\ lastOutcome = "error"
    /\ result.kind = "throw"
    /\ result.name = "PortError"
    /\ result.port = port
    /\ result.host = DefaultHost

\* the port numbers of a list, in list order
RECURSIVE PortNumbers(_, _)
PortNumbers(ps, i) == IF i > Len(ps) THEN <<>> ELSE <<ps[i].v>> \o PortNumbers(ps, i + 1)

\* C19: in findAvailablePort and in waitForPort at most one probe is outstanding
\* at any time and the next one starts only after the previous one has settled;
\* checkMultiplePorts starts one probe per input element before waiting for any
\* of them, so that N probes are outstanding at once, and resolves only after
\* all of them have settled.
C19_SequentialScanConcurrentBatch ==
    /\ [](op \in {"findAvailablePort", "waitForPort"} =>
              /\ inflight \in {0, 1}
              /\ inflight = 1 <=> pc = "probing")
    /\ [][(op' \in {"findAvailablePort", "waitForPort"} /\ probed' # probed) =>
              (inflight = 0 /\ inflight' = 1 /\ Len(probed') = Len(probed) + 1)]_vars
    /\ [](op = "checkMultiplePorts" =>
              /\ inflight = Cardinality(Pendings(checks))
              /\ inflight <= Len(ports)
              /\ pc = "done" => inflight = 0)
    /\ [][(op = "idle" /\ op' = "checkMultiplePorts" /\ isNode /\ AllValid(ports')) =>
              /\ pc' = "all"
              /\ inflight' = Len(ports')
              /\ probed' = PortNumbers(ports', 1)]_vars
    /\ [][(op = "checkMultiplePorts" /\ pc = "all" /\ pc' = "done") =>
              /\ inflight = 0
              /\ \A i \in 1..Len(ports) : checks[i].state = "settled"
              /\ result'.kind = "return"]_vars

\* three probes of one batch are outstanding at once
C19_Witness ==
    /\ op = "checkMultiplePorts"
    /\ pc = "all"
    /\ isNode
    /\ Len(ports) = 3
    /\ inflight = 3
    /\ probed = PortNumbers(ports, 1)

Min(a, b) == IF a <= b THEN a ELSE b

\* findAvailablePort has failed with the error of the exhausted scan
FindExhausted ==
    /\ op = "findAvailablePort"
    /\ pc = "done"
    /\ result.kind = "throw"
    /\ result.msg = "exhausted"

\* C17: when findAvailablePort finds no free port it fails with a PortError that
\* reports the range startPort-endPort and an attempt count equal to the number
\* of probes performed, which is min(maxTries, endPort - startPort + 1), and
\* that carries the host (stated for a positive maxTries).
C17_ExhaustionReport ==
    (FindExhausted /\ maxTries >= 1) =>
        /\ result.name = "PortError"
        /\ result.info.from = startPort.v
        /\ result.info.to = endPort.v
        /\ result.info.attempts = Len(probed)
        /\ result.info.attempts = Min(maxTries, endPort.v - startPort.v + 1)
        /\ result.host = host
        /\ result.host \in {DefaultHost, "example.test"}

\* C18: non-positive counters are rejected as malformed input: findAvailablePort
\* with maxTries <= 0, and waitForPort with pollInterval <= 0 or overallTimeout
\* <= 0, fail with a validation error raised before any probe, not with the
\* exhaustion or the timeout error, and do not return a value (stated for calls
\* in Node.js with valid ports).
C18_NonPositiveCountersRejected ==
    /\ (/\ op = "findAvailablePort"
        /\ pc = "done"
        /\ isNode
        /\ ValidPortNumber(startPort)
        /\ ValidPortNumber(endPort)
        /\ startPort.v <= endPort.v
        /\ maxTries <= 0) =>
          /\ result.kind = "throw"
          /\ result.msg \notin {"exhausted", "timeout"}
          /\ probed = <<>>
    /\ (/\ op = "waitForPort"
        /\ pc = "done"
        /\ isNode
        /\ ValidPortNumber(port)
        /\ (pollInterval <= 0 \/ overallTimeout <= 0)) =>
          /\ result.kind = "throw"
          /\ result.msg \notin {"exhausted", "timeout"}
          /\ probed = <<>>

\* the option as resolved: the value passed, or the default when it is omitted
Resolved(passed, default, resolved) ==
    IF passed = Undefined THEN resolved = default ELSE resolved = passed.v

ResolvedHost(passed, resolved) ==
    IF passed = NoHost THEN resolved = "localhost" ELSE resolved = passed

\* the operation in progress has destructured its options
OptionsRead ==
    CASE op = "findAvailablePort" -> TRUE
      [] op \in {"isPortInUse", "isPortAvailable"} -> isNode /\ ValidPortNumber(port)
      [] op = "waitForPort" -> ValidPortNumber(port)
      [] op = "checkMultiplePorts" -> isNode /\ AllValid(ports) /\ Len(ports) >= 1
      [] OTHER -> FALSE

\* C20: omitted options take the documented defaults (host 'localhost', probe
\* timeout 5000 ms, startPort 3000, endPort 65535, maxTries 100, pollInterval
\* 1000 ms, overallTimeout 30000 ms); findAvailablePort() with no options probes
\* only the ports 3000..3099, in order, and fails with the exhaustion error when
\* none of these 100 ports is free.
C20_OmittedOptionsTakeDefaults ==
    /\ OptionsRead =>
          /\ ResolvedHost(options.host, host)
          /\ Resolved(options.timeout, 5000, timeout)
    /\ op = "findAvailablePort" =>
          /\ Resolved(options.startPort, 3000, startPort.v)
          /\ Resolved(options.endPort, 65535, endPort.v)
          /\ Resolved(options.maxTries, 100, maxTries)
    /\ (op = "waitForPort" /\ OptionsRead) =>
          /\ Resolved(options.pollInterval, 1000, pollInterval)
          /\ Resolved(options.overallTimeout, 30000, overallTimeout)
    /\ (op = "findAvailablePort" /\ options = NoOptions) =>
          /\ Len(probed) <= 100
          /\ \A i \in 1..Len(probed) : probed[i] = 3000 + i - 1
          /\ foundFree \subseteq 3000..3099
          /\ pc = "done" =>
                \/ /\ result.kind = "return"
                   /\ result.value \in 3000..3099
                   /\ foundFree = {result.value}
                \/ /\ result.kind = "throw"
                   /\ result.name = "PortError"
                   /\ result.msg = "exhausted"
                   /\ result.info.from = 3000
                   /\ result.info.to = 65535
                   /\ result.info.attempts = 100
                   /\ result.host = "localhost"
                   /\ foundFree = {}
                   /\ isNode => Len(probed) = 100

\* findAvailablePort() in Node.js has probed 3000..3099 and reported exhaustion
C20_Witness ==
    /\ op = "findAvailablePort"
    /\ isNode
    /\ options = NoOptions
    /\ pc = "done"
    /\ result.kind = "throw"
    /\ result.msg = "exhausted"
    /\ Len(probed) = 100
    /\ probed[1] = 3000
    /\ probed[100] = 3099
    /\ host = "localhost"
    /\ timeout = 5000

\* the port numbers of a list in the order of their first occurrence
RECURSIVE FirstOccurrences(_, _)
FirstOccurrences(ps, i) ==
    IF i > Len(ps) THEN <<>>
    ELSE IF \E j \in 1..(i - 1) : ps[j] = ps[i] THEN FirstOccurrences(ps, i + 1)
    ELSE <<ps[i].v>> \o FirstOccurrences(ps, i + 1)

\* C29: the map returned by checkMultiplePorts does not depend on the order in
\* which the probes complete: whatever that order, the entries are in input
\* order (by first occurrence of each port) and the value of a port listed more
\* than once is the result of its last occurrence in the list.
C29_MapIndependentOfCompletionOrder ==
    (CheckDone /\ AllValid(ports)) =>
        /\ result.kind = "return"
        /\ result.value.keys = FirstOccurrences(ports, 1)
        /\ \A k \in 1..Len(result.value.keys) :
              \E i \in 1..Len(ports) :
                 /\ ports[i].v = result.value.keys[k]
                 /\ LastOf(ports, i)
                 /\ result.value.val[k] = checks[i].available
                 /\ result.value.val[k] = (checks[i].outcome = "unreachable")

\* the last occurrence of a repeated port settled first, as in use; its first
\* occurrence settled last, as free: the port is recorded as not available
C29_Witness ==
    /\ CheckDone
    /\ isNode
    /\ AllValid(ports)
    /\ Len(ports) = 3
    /\ ports[1] = ports[3]
    /\ ports[2] # ports[1]
    /\ checks[3].order = 1
    /\ checks[2].order = 2
    /\ checks[1].order = 3
    /\ checks[1].outcome = "unreachable"
    /\ checks[3].outcome = "reachable"
    /\ result.kind = "return"
    /\ result.value.keys = <<ports[1].v, ports[2].v>>
    /\ MapGet(result.value, ports[1].v) = FALSE

----------------------------------------------------------------------------
(* randomStringWithFixedLength (src/universal/string/index.ts) *)

\* A string is the sequence of its characters.  A value of Math.random(), a
\* number in [0, 1), is the sequence of its digits after the point in base 36:
\* the empty sequence is 0.
Digit36 == <<"0", "1", "2", "3", "4", "5", "6", "7", "8", "9", "a", "b", "c", "d",
             "e", "f", "g", "h", "i", "j", "k", "l", "m", "n", "o", "p", "q", "r",
             "s", "t", "u", "v", "w", "x", "y", "z">>

\* Number.prototype.toString(36) of a number in [0, 1)
ToString36(r) ==
    IF r = <<>> THEN <<"0">>
    ELSE <<"0", ".">> \o [i \in 1..Len(r) |-> Digit36[r[i] + 1]]

\* what indexing a string past its end gives
NoChar == "<undefined>"

\* str[i], i counted from 0
CharAt(str, i) == IF i + 1 <= Len(str) THEN str[i + 1] ELSE NoChar

\* Array.prototype.join(""): an undefined element is joined as the empty string
RECURSIVE Join(_, _)
Join(items, i) ==
    IF i > Len(items) THEN <<>>
    ELSE (IF items[i] = NoChar THEN <<>> ELSE <<items[i]>>) \o Join(items, i + 1)

\* line 7: throw new Error("Length must be a positive integer.")
LengthError == [Pending EXCEPT !.kind = "throw", !.name = "Error",
                               !.msg = "length_not_positive_integer"]

\* the lengths given: integers around 0 and a non-integer
LengthInputs == {Int_(n) : n \in -1..MaxLength} \cup {Frac(1)}

\* the values Math.random() yields: 0, 0.5, 7/1296, 35/36
RandomValues == {<<>>, <<18>>, <<0, 7>>, <<35>>}

\* lines 5-10 up to the first call of the Array.from callback
randomStringWithFixedLength(length) ==
    /\ op' = "randomStringWithFixedLength"
    /\ args' = [length |-> length]
    /\ IF ~IsInteger(length) \/ length.v <= 0 THEN
           /\ Settle(LengthError)
           /\ UNCHANGED locals
       ELSE
           /\ locals' = [items |-> <<>>]
           /\ pc' = "generating"
           /\ UNCHANGED result
    /\ UNCHANGED <<isNode, now, netVars>>

CallRandomString ==
    /\ op = "idle"
    /\ \E length \in LengthInputs : randomStringWithFixedLength(length)

\* line 10: the callback of Array.from, () => Math.random().toString(36)[2]
RandomStringItem ==
    /\ op = "randomStringWithFixedLength"
    /\ pc = "generating"
    /\ Len(locals.items) < args.length.v
    /\ \E r \in RandomValues :
          locals' = [items |-> Append(locals.items, CharAt(ToString36(r), 2))]
    /\ UNCHANGED <<isNode, now, netVars, op, pc, result, args>>

\* line 10: .join("") of the array of length elements, returned
RandomStringJoin ==
    /\ op = "randomStringWithFixedLength"
    /\ pc = "generating"
    /\ Len(locals.items) = args.length.v
    /\ Settle(Return(Join(locals.items, 1)))
    /\ UNCHANGED <<isNode, now, netVars, op, args, locals>>

NextString ==
    \/ CallRandomString
    \/ RandomStringItem
    \/ RandomStringJoin

StringSpec == Init /\ [][NextString]_vars

\* C30: randomStringWithFixedLength(n) throws for every n that is not a positive
\* integer, and for every positive integer n returns a string of exactly n
\* characters, whatever values the random source yields.
C30_FixedLength ==
    (op = "randomStringWithFixedLength" /\ pc = "done") =>
        IF IsInteger(args.length) /\ args.length.v > 0
        THEN /\ result.kind = "return"
             /\ Len(result.value) = args.length.v
        ELSE /\ result.kind = "throw"
             /\ result.name = "Error"

----------------------------------------------------------------------------
(* convertToSeconds (time utilities, src/node/jwt/jwt.md lines 203-246) *)

SECONDS_PER_MINUTE == 60
SECONDS_PER_HOUR == 60 * 60
SECONDS_PER_DAY == 60 * 60 * 24
SECONDS_PER_MONTH == 60 * 60 * 24 * 30
SECONDS_PER_YEAR == 60 * 60 * 24 * 365

Units(s, mi, h, d, mo, y) ==
    [seconds |-> s, minutes |-> mi, hours |-> h, days |-> d, months |-> mo, years |-> y]

\* options = {}: the default of the options parameter
EmptyUnits == Units(Undefined, Undefined, Undefined, Undefined, Undefined, Undefined)

\* a destructuring whose defaults are 1
DestructureDefaultsOne(o) ==
    Units(Default(o.seconds, Int_(1)).v, Default(o.minutes, Int_(1)).v,
          Default(o.hours, Int_(1)).v, Default(o.days, Int_(1)).v,
          Default(o.months, Int_(1)).v, Default(o.years, Int_(1)).v)

\* the destructuring: const { seconds = 0, ..., years = 0 } = options
Destructure(o) ==
    Units(Default(o.seconds, Int_(0)).v, Default(o.minutes, Int_(0)).v,
          Default(o.hours, Int_(0)).v, Default(o.days, Int_(0)).v,
          Default(o.months, Int_(0)).v, Default(o.years, Int_(0)).v)

\* a total with years of 366 days
TotalSecondsLeapYear(u) ==
    u.seconds + (u.minutes * SECONDS_PER_MINUTE) + (u.hours * SECONDS_PER_HOUR)
      + (u.days * SECONDS_PER_DAY) + (u.months * SECONDS_PER_MONTH)
      + (u.years * (SECONDS_PER_YEAR + SECONDS_PER_DAY))

\* the returned expression
TotalSeconds(u) ==
    u.seconds + (u.minutes * SECONDS_PER_MINUTE) + (u.hours * SECONDS_PER_HOUR)
      + (u.days * SECONDS_PER_DAY) + (u.months * SECONDS_PER_MONTH)
      + (u.years * SECONDS_PER_YEAR)

\* the counts given for a unit: omitted, small ones, and the one of the
\* documented example
UnitInputs(example) == {Undefined} \cup {Int_(n) : n \in 0..MaxUnit} \cup {Int_(example)}

\* the documented example of mixed units
ExampleUnits == Units(Int_(45), Int_(30), Int_(8), Int_(15), Int_(6), Int_(1))

\* convertToSeconds(options), given says that the argument is passed
convertToSeconds(given, o) ==
    LET options_ == IF given THEN o ELSE EmptyUnits
    IN  /\ op' = "convertToSeconds"
        /\ args' = [given |-> given, options |-> o]
        /\ locals' = Destructure(options_)
        /\ Settle(Return(TotalSeconds(Destructure(options_))))
        /\ UNCHANGED <<isNode, now, netVars>>

CallConvertToSeconds ==
    /\ op = "idle"
    /\ \E s \in UnitInputs(45), mi \in UnitInputs(30), h \in UnitInputs(8),
          d \in UnitInputs(15), mo \in UnitInputs(6), y \in UnitInputs(1) :
          convertToSeconds(TRUE, Units(s, mi, h, d, mo, y))

CallConvertToSecondsNoArgument ==
    /\ op = "idle"
    /\ convertToSeconds(FALSE, EmptyUnits)

NextTime ==
    \/ CallConvertToSeconds
    \/ CallConvertToSecondsNoArgument

TimeSpec == Init /\ [][NextTime]_vars

\* the count of a unit as passed, 0 when it is omitted
Count(x) == IF x = Undefined THEN 0 ELSE x.v

ConvertDone == op = "convertToSeconds" /\ pc = "done"

----------------------------------------------------------------------------
(* JWT helpers: jwtVerify, jwtSign, jwtDecode, jwtIsExpired, jwtTimeUntilExpiry.
   jsonwebtoken is the environment: verify and sign call their callback once,
   with an error or with a value; decode returns a value or null, or throws. *)

\* a string of n characters (its content is not looked at), '' when n = 0
Str(n) == [t |-> "str", v |-> n]

\* an object payload with its exp claim (Undefined when it has none)
Obj(exp) == [t |-> "obj", v |-> 0, exp |-> exp]

\* a value in a condition: undefined, null, 0 and '' are falsy
Truthy(x) ==
    CASE x.t = "undef" -> FALSE
      [] x.t = "int" -> x.v # 0
      [] x.t = "str" -> x.v # 0
      [] OTHER -> TRUE

\* typeof
TypeOf(x) ==
    CASE x.t = "undef" -> "undefined"
      [] x.t \in {"int", "frac"} -> "number"
      [] x.t = "str" -> "string"
      [] OTHER -> "object"

\* decoded.data.exp: a string has no exp property
ExpOf(x) == IF x.t = "obj" THEN x.exp ELSE Undefined

\* JwtErrorResult and JwtSuccessResult
JwtErr(code) == [status |-> "error", code |-> code, data |-> Undefined]
JwtOk(data) == [status |-> "success", code |-> "", data |-> data]

\* the values given as token, secret and payload
TokenInputs == {Undefined, Str(0), Str(1), Int_(1)}
SecretInputs == {Undefined, Str(0), Str(1)}
ExpValues == {Undefined} \cup {Int_(n) : n \in -1..MaxExp}
PayloadInputs == {Undefined, Str(1), Obj(Undefined), Obj(Int_(MaxExp))}
ExpiresInInputs == {Undefined, Int_(0), Int_(1), Str(0), Str(2)}

\* what jsonwebtoken hands to the verify callback as decoded, and what
\* jsonwebtoken.decode returns (Undefined stands for null as well)
DecodedValues == {Undefined, Str(0), Str(1)} \cup {Obj(x) : x \in ExpValues}

\* what jsonwebtoken hands to the sign callback as token
SignedValues == {Undefined, Str(0), Str(3)}

\* part_003 lines 141-155 and 247-261: the environment check of jwtVerify and jwtSign
JwtEnvironment(node) ==
    IF IsThrow(assertNodeEnvironment(node)) THEN JwtErr("environment_error") ELSE JwtOk(Undefined)

\* a verify that checks the secret before the token
jwtVerifyChecksSecretFirst(node, token, secret) ==
    IF JwtEnvironment(node).status = "error" THEN JwtEnvironment(node)
    ELSE IF ~Truthy(secret) THEN JwtErr("invalid_secret")
    ELSE IF ~Truthy(token) \/ TypeOf(token) # "string" THEN JwtErr("invalid_token")
    ELSE JwtOk(Undefined)

\* a verify that checks its arguments before the environment
jwtVerifyChecksEnvironmentLast(node, token, secret) ==
    IF ~Truthy(token) \/ TypeOf(token) # "string" THEN JwtErr("invalid_token")
    ELSE IF ~Truthy(secret) THEN JwtErr("invalid_secret")
    ELSE JwtEnvironment(node)

\* lines 143-176: the checks of jwtVerify before jsonwebtoken.verify; success
\* stands for "verify is called"
jwtVerifyChecks(node, token, secret) ==
    IF JwtEnvironment(node).status = "error" THEN JwtEnvironment(node)
    ELSE IF ~Truthy(token) \/ TypeOf(token) # "string" THEN JwtErr("invalid_token")
    ELSE IF ~Truthy(secret) THEN JwtErr("invalid_secret")
    ELSE JwtOk(Undefined)

\* a callback that hands any decoded value on
jwtVerifyResultUnchecked(err, decoded) ==
    IF err THEN JwtErr("verification_failed") ELSE JwtOk(decoded)

\* lines 178-204: the callback of jsonwebtoken.verify
jwtVerifyResult(err, decoded) ==
    IF err THEN JwtErr("verification_failed")
    ELSE IF ~Truthy(decoded) \/ TypeOf(decoded) = "string" THEN JwtErr("invalid_payload")
    ELSE JwtOk(decoded)

\* lines 138-177
jwtVerify(token, secret) ==
    LET checked == jwtVerifyChecks(isNode, token, secret)
    IN  /\ op' = "jwtVerify"
        /\ args' = [token |-> token, secret |-> secret]
        /\ IF checked.status = "error" THEN
               /\ Settle(Return(checked))
               /\ locals' = [calls |-> 0, resolved |-> 1]
           ELSE
               /\ pc' = "verifying"
               /\ locals' = [calls |-> 1, resolved |-> 0]
               /\ UNCHANGED result
        /\ UNCHANGED <<isNode, now, netVars>>

CallJwtVerify ==
    /\ op = "idle"
    /\ \E token \in TokenInputs, secret \in SecretInputs : jwtVerify(token, secret)

\* lines 178-204: jsonwebtoken.verify calls back
JwtVerifyCallback ==
    /\ op = "jwtVerify"
    /\ pc = "verifying"
    /\ \E err \in BOOLEAN, decoded \in DecodedValues :
          /\ err => decoded = Undefined
          /\ Settle(Return(jwtVerifyResult(err, decoded)))
          /\ locals' = [calls |-> locals.calls, resolved |-> locals.resolved + 1,
                        err |-> err, decoded |-> decoded]
    /\ UNCHANGED <<isNode, now, netVars, op, args>>

\* JwtSignOptions: expiresIn and defaultExpiresIn, Undefined when not given
SignOptions(expiresIn, defaultExpiresIn) ==
    [expiresIn |-> expiresIn, defaultExpiresIn |-> defaultExpiresIn]

\* line 263: const { defaultExpiresIn, ...signOptions } = options
RestOptions(options_) == SignOptions(options_.expiresIn, Undefined)

\* lines 287-290: the default expiration is spread in when defaultExpiresIn is
\* truthy and signOptions.expiresIn is falsy
FinalOptions(options_) ==
    IF Truthy(options_.defaultExpiresIn) /\ ~Truthy(RestOptions(options_).expiresIn)
    THEN [RestOptions(options_) EXCEPT !.expiresIn = options_.defaultExpiresIn]
    ELSE RestOptions(options_)

\* lines 247-284: the checks of jwtSign before jsonwebtoken.sign
jwtSignChecks(node, payload, secret) ==
    IF JwtEnvironment(node).status = "error" THEN JwtEnvironment(node)
    ELSE IF ~Truthy(payload) \/ TypeOf(payload) # "object" THEN JwtErr("invalid_payload")
    ELSE IF ~Truthy(secret) THEN JwtErr("invalid_secret")
    ELSE JwtOk(Undefined)

\* a callback that reports a missing token as a success
jwtSignResultUnchecked(err, token) ==
    IF err THEN JwtErr("signing_failed") ELSE JwtOk(token)

\* lines 292-318: the callback of jsonwebtoken.sign
jwtSignResult(err, token) ==
    IF err THEN JwtErr("signing_failed")
    ELSE IF ~Truthy(token) THEN JwtErr("signing_failed")
    ELSE JwtOk(token)

\* lines 244-292
jwtSign(payload, secret, options_) ==
    LET checked == jwtSignChecks(isNode, payload, secret)
    IN  /\ op' = "jwtSign"
        /\ args' = [payload |-> payload, secret |-> secret, options |-> options_]
        /\ IF checked.status = "error" THEN
               /\ Settle(Return(checked))
               /\ locals' = [calls |-> 0, resolved |-> 1]
           ELSE
               /\ pc' = "signing"
               /\ locals' = [calls |-> 1, resolved |-> 0,
                             finalOptions |-> FinalOptions(options_)]
               /\ UNCHANGED result
        /\ UNCHANGED <<isNode, now, netVars>>

CallJwtSign ==
    /\ op = "idle"
    /\ \E payload \in PayloadInputs, secret \in SecretInputs,
          e \in ExpiresInInputs, d \in ExpiresInInputs :
          jwtSign(payload, secret, SignOptions(e, d))

\* lines 292-318: jsonwebtoken.sign calls back
JwtSignCallback ==
    /\ op = "jwtSign"
    /\ pc = "signing"
    /\ \E err \in BOOLEAN, token \in SignedValues :
          /\ err => token = Undefined
          /\ Settle(Return(jwtSignResult(err, token)))
          /\ locals' = [calls |-> locals.calls, resolved |-> locals.resolved + 1,
                        finalOptions |-> locals.finalOptions,
                        err |-> err, token |-> token]
    /\ UNCHANGED <<isNode, now, netVars, op, args>>

\* how one jsonwebtoken.decode call ends
DecodeOutcomes ==
    {[kind |-> "returns", value |-> d] : d \in DecodedValues}
      \cup {[kind |-> "throws", value |-> Undefined]}

\* lines 349-391: jwtDecode
jwtDecode(token, outcome) ==
    IF ~Truthy(token) \/ TypeOf(token) # "string" THEN JwtErr("invalid_token")
    ELSE IF outcome.kind = "throws" THEN JwtErr("decode_failed")
    ELSE IF ~Truthy(outcome.value) THEN JwtErr("decode_failed")
    ELSE JwtOk(outcome.value)

\* Math.floor(Date.now() / 1000)
CurrentTime(ms) == ms \div 1000

\* lines 413-436: jwtIsExpired
jwtIsExpiredResult(token, outcome, ms) ==
    LET decoded == jwtDecode(token, outcome)
    IN  IF decoded.status = "error" THEN decoded
        ELSE IF ~Truthy(ExpOf(decoded.data)) THEN JwtErr("invalid_payload")
        ELSE JwtOk(ExpOf(decoded.data).v < CurrentTime(ms))

\* lines 454-479: jwtTimeUntilExpiry
jwtTimeUntilExpiryResult(token, outcome, ms) ==
    LET decoded == jwtDecode(token, outcome)
        timeLeft == ExpOf(decoded.data).v - CurrentTime(ms)
    IN  IF decoded.status = "error" THEN decoded
        ELSE IF ~Truthy(ExpOf(decoded.data)) THEN JwtErr("invalid_payload")
        ELSE JwtOk(IF timeLeft > 0 THEN timeLeft ELSE 0)

\* a call of jwtIsExpired or jwtTimeUntilExpiry: both are synchronous
JwtExpiryCall(name, token, outcome, r) ==
    /\ op' = name
    /\ args' = [token |-> token]
    /\ locals' = [outcome |-> outcome, currentTime |-> CurrentTime(now)]
    /\ Settle(Return(r))
    /\ UNCHANGED <<isNode, now, netVars>>

CallJwtIsExpired ==
    /\ op = "idle"
    /\ \E token \in TokenInputs, outcome \in DecodeOutcomes :
          JwtExpiryCall("jwtIsExpired", token, outcome,
                        jwtIsExpiredResult(token, outcome, now))

CallJwtTimeUntilExpiry ==
    /\ op = "idle"
    /\ \E token \in TokenInputs, outcome \in DecodeOutcomes :
          JwtExpiryCall("jwtTimeUntilExpiry", token, outcome,
                        jwtTimeUntilExpiryResult(token, outcome, now))

\* time passes before the call, half a second at a time, to past the largest exp
ClockTicks ==
    /\ op = "idle"
    /\ now < (MaxExp + 1) * 1000
    /\ now' = now + 500
    /\ UNCHANGED <<isNode, netVars, op, pc, result, libVars>>

NextJwt ==
    \/ ClockTicks
    \/ CallJwtVerify
    \/ JwtVerifyCallback
    \/ CallJwtSign
    \/ JwtSignCallback
    \/ CallJwtIsExpired
    \/ CallJwtTimeUntilExpiry

JwtSpec == Init /\ [][NextJwt]_vars

----------------------------------------------------------------------------
(* Properties of the JWT helpers *)

JwtErrorCodes == {"invalid_token", "invalid_secret", "invalid_payload",
                  "verification_failed", "signing_failed", "token_expired",
                  "decode_failed", "environment_error"}

\* the call is over and the jsonwebtoken primitive has called back
CalledBack == pc = "done" /\ locals.calls = 1

C24_DefaultExpiresInOnlyWhenUnset ==
    (op = "jwtSign" /\ locals.calls = 1) =>
        /\ locals.finalOptions.defaultExpiresIn = Undefined
        /\ args.options.expiresIn # Undefined =>
              locals.finalOptions.expiresIn = args.options.expiresIn
        /\ ExpOf(args.payload) # Undefined =>
              locals.finalOptions.expiresIn = args.options.expiresIn
        /\ (/\ args.options.expiresIn = Undefined
            /\ ExpOf(args.payload) = Undefined
            /\ Truthy(args.options.defaultExpiresIn)) =>
              locals.finalOptions.expiresIn = args.options.defaultExpiresIn

\* the token decoded to an object payload with an exp claim
HasExp ==
    /\ Truthy(args.token)
    /\ TypeOf(args.token) = "string"
    /\ locals.outcome.kind = "returns"
    /\ locals.outcome.value.t = "obj"
    /\ locals.outcome.value.exp # Undefined

\* C25: for a decodable token with an exp claim jwtIsExpired returns 'success'
\* with data true exactly when exp is earlier than the current Unix time in
\* whole seconds; with no exp claim it returns 'invalid_payload'; when decoding
\* fails it returns the error result of the decoding.
C25_ExpiredIffExpBeforeNow ==
    (op = "jwtIsExpired" /\ pc = "done") =>
        /\ result.kind = "return"
        /\ HasExp =>
              /\ result.value.status = "success"
              /\ result.value.data = (locals.outcome.value.exp.v < now \div 1000)
        /\ jwtDecode(args.token, locals.outcome).status = "error" =>
              result.value = jwtDecode(args.token, locals.outcome)
        /\ (/\ jwtDecode(args.token, locals.outcome).status = "success"
            /\ ExpOf(locals.outcome.value) = Undefined) =>
              result.value = JwtErr("invalid_payload")

\* C26: for a decodable token with an exp claim jwtTimeUntilExpiry returns
\* 'success' with data max(0, exp - now), now in whole seconds: never negative
\* and 0 for every token whose exp is not in the future.
C26_TimeLeftIsMaxZero ==
    (op = "jwtTimeUntilExpiry" /\ pc = "done" /\ HasExp) =>
        /\ result.kind = "return"
        /\ result.value.status = "success"
        /\ result.value.data >= 0
        /\ result.value.data =
              (IF locals.outcome.value.exp.v - now \div 1000 > 0
               THEN locals.outcome.value.exp.v - now \div 1000 ELSE 0)
        /\ locals.outcome.value.exp.v <= now \div 1000 => result.value.data = 0

ValidToken(token) == Truthy(token) /\ TypeOf(token) = "string"

====
